---- MODULE Spec2Model ----
(***************************************************************************)
(* Model of the PERCo turnstile manager: main.py (the run), data_handler.py *)
(* (the roster filter) and turnstile.py (TurnstileManager).                 *)
(*                                                                          *)
(* Text is modelled as sequences of one-character strings, so that strip,   *)
(* split, str.contains, the digit extraction and the timestamp parse are    *)
(* computed as the code computes them.  A blank spreadsheet cell (NaN/NaT)   *)
(* is the empty sequence <<>>, a filled cell holding v is <<v>>.            *)
(***************************************************************************)
EXTENDS Integers, Sequences, FiniteSets, TLC

VARIABLES
    pc,          \* position of main(): "ping","load","backup","clear","update","report","exited"
    skipUpdate,  \* args.skip_update
    skipReport,  \* args.skip_report
    skipClear,   \* args.skip_clear_all_cards
    cardsFile,   \* rows of the Excel file at args.file
    eventText,   \* body the device returns for /cgi/event_get
    today,       \* datetime.now().date() as read by load_and_filter_cards (day number, 0 = not read)
    full,        \* full_cards_df: [rows, rfidDtype]
    active,      \* active_cards_df: rows
    idx,         \* number of completed iterations of the provisioning loop
    log,         \* HTTP requests sent to the device, in order, each with its outcome
    backups,     \* backup files written (their contents)
    reports,     \* report files written (their rows)
    events,      \* the AccessEvents of generate_access_report (df before drop_duplicates)
    reachable,   \* what check_ping returned: "unknown" before the call, then "yes" or "no"
    exitCode,    \* process exit status, -1 while running
    failure      \* the step that raised, "none" if none did

vars == <<pc, skipUpdate, skipReport, skipClear, cardsFile, eventText, today,
          full, active, idx, log, backups, reports, events, reachable, exitCode,
          failure>>

----------------------------------------------------------------------------
(* Bounds *)

\* days are numbered 1..MaxDay; "today" and the expiration dates range over them
MaxDay == 3
\* longest roster of the roster-filter specification
MaxRoster == 2
\* most lines of an event text of the report specification
MaxLines == 2
\* most lines of an event text of the aggregation specification
MaxAggLines == 3

Days == 1..MaxDay

----------------------------------------------------------------------------
(* Characters and strings *)

TAB == "\t"
NL == "\n"
SP == " "
DigitChars == <<"0", "1", "2", "3", "4", "5", "6", "7", "8", "9">>
IsDigit(c) == \E d \in 1..10 : DigitChars[d] = c
DigitValue(c) == (CHOOSE d \in 1..10 : DigitChars[d] = c) - 1
\* str.strip() with no argument removes these (the ones the model's texts use)
IsSpace(c) == c \in {SP, TAB, NL, "\r"}

RECURSIVE IntToChars(_)
\* str(n) of a non-negative int
IntToChars(n) ==
    IF n < 10 THEN <<DigitChars[n + 1]>>
    ELSE IntToChars(n \div 10) \o <<DigitChars[(n % 10) + 1]>>

\* pat occurs in s at position i
MatchAt(s, pat, i) ==
    /\ i + Len(pat) - 1 <= Len(s)
    /\ \A k \in 1..Len(pat) : s[i + k - 1] = pat[k]

\* Series.str.contains(pat) for a pattern without regex metacharacters:
\* a case-sensitive substring search
Contains(s, pat) == \E i \in 1..(Len(s) + 1) : MatchAt(s, pat, i)

----------------------------------------------------------------------------
(* data_handler.py: the roster *)

\* a blank cell, as pandas reads it (NaN, NaT)
NaN == <<>>
notna(cell) == cell # NaN

\* pd.read_excel on the "Card RFID" column: integers with a blank among them
\* are read as float64, integers alone as int64
RfidDtype(file) ==
    IF \E i \in 1..Len(file) : file[i].rfid = NaN THEN "float64" ELSE "int64"

\* astype(str) of a boolean cell
AsTypeStr(b) == IF b THEN "True" ELSE "False"

\* str.lower() on the values astype(str) produces
StrLower(s) ==
    CASE s = "True" -> "true"
      [] s = "False" -> "false"
      [] OTHER -> s

\* pd.to_datetime(..., errors="coerce") of an expiration cell: a date stays a
\* date, a blank cell or a text pandas cannot parse becomes NaT
ToDatetimeCoerce(cell) == IF cell.kind = "date" THEN <<cell.day>> ELSE NaN

\* df = pd.read_excel(file_path); df["Active"] = df["Active"].astype(str)
ReadExcel(file) ==
    [rows |-> [i \in 1..Len(file) |->
                 [index |-> i - 1,
                  rfid |-> file[i].rfid,
                  number |-> file[i].number,
                  username |-> file[i].username,
                  active |-> AsTypeStr(file[i].active),
                  exp |-> file[i].exp]],
     rfidDtype |-> RfidDtype(file)]

\* the row filter with > in place of >=
IsActiveRowStrict(row, t) ==
    /\ StrLower(row.active) = "true"
    /\ notna(row.rfid)
    /\ LET e == ToDatetimeCoerce(row.exp) IN notna(e) /\ e[1] > t

\* the boolean mask of load_and_filter_cards; a comparison with NaT is False
IsActiveRow(row, t) ==
    /\ StrLower(row.active) = "true"
    /\ notna(row.rfid)
    /\ LET e == ToDatetimeCoerce(row.exp) IN notna(e) /\ e[1] >= t

\* active_cards_df = df[mask].copy()
ActiveRows(df, t) ==
    LET Keep(row) == IsActiveRow(row, t) IN SelectSeq(df.rows, Keep)

----------------------------------------------------------------------------
(* turnstile.py: requests *)

RecordsToFetch == 10000

\* f"{rfid}" of the value iterrows() yields for the row: an int of an int64
\* column prints as its digits, a float of a float64 column with ".0"
FormatRfid(v, dtype) ==
    IF dtype = "float64" THEN IntToChars(v) \o <<".", "0">> ELSE IntToChars(v)

\* a request _make_request sent, and whether it returned (ok) or raised
Sent(request, ok) ==
    [endpoint |-> request.endpoint, req |-> request.req, ok |-> ok]

CardGetListRequest == [endpoint |-> "/cgi/card_get_list", req |-> <<>>]

\* params = {"req": f"1+1+{rfid}"}
CardEditRequest(row, dtype) ==
    [endpoint |-> "/cgi/card_edit",
     req |-> <<"1", "+", "1", "+">> \o FormatRfid(row.rfid[1], dtype)]

\* params = {"req": f"-1,0,-{records_to_fetch},0,0,1,1,0,23,59,31,12,99,1,/en"}
EventGetRequest ==
    [endpoint |-> "/cgi/event_get",
     req |-> <<"-1,0,-">> \o IntToChars(RecordsToFetch)
             \o <<",0,0,1,1,0,23,59,31,12,99,1,/en">>]

----------------------------------------------------------------------------
(* turnstile.py, generate_access_report: from the event text to the rows *)

\* str.strip(): leading and trailing whitespace of the whole text removed
Strip(s) ==
    LET keep == {i \in 1..Len(s) : ~IsSpace(s[i])} IN
    IF keep = {} THEN <<>>
    ELSE SubSeq(s, CHOOSE i \in keep : \A j \in keep : i <= j,
                   CHOOSE i \in keep : \A j \in keep : i >= j)

RECURSIVE Split(_, _)
\* str.split(sep): the pieces between the separators, empty pieces kept
Split(s, sep) ==
    LET at == {i \in 1..Len(s) : s[i] = sep} IN
    IF at = {} THEN <<s>>
    ELSE LET i == CHOOSE j \in at : \A k \in at : j <= k IN
         <<SubSeq(s, 1, i - 1)>> \o Split(SubSeq(s, i + 1, Len(s)), sep)

\* rows = raw_data.strip().split("\n")
\* data = [row.split("\t") for row in rows if len(row.split("\t")) == 4]
Tokenize(text) ==
    LET rows == Split(Strip(text), NL)
        FourFields(row) == Len(Split(row, TAB)) = 4
        kept == SelectSeq(rows, FourFields)
    IN [i \in 1..Len(kept) |-> Split(kept[i], TAB)]

NotRegistered ==
    <<"C", "a", "r", "d", " ", "i", "s", " ", "n", "o", "t", " ",
      "r", "e", "g", "i", "s", "t", "e", "r", "e", "d">>
ByCard == <<"b", "y", " ", "c", "a", "r", "d">>

\* Series.str.extract(r"(\d+)"): the leftmost longest run of digits, NaN if none
ExtractDigits(s) ==
    LET at == {i \in 1..Len(s) : IsDigit(s[i])} IN
    IF at = {} THEN NaN
    ELSE LET i == CHOOSE j \in at : \A k \in at : j <= k
             stop == {j \in i..Len(s) : \A k \in i..j : IsDigit(s[k])}
             e == CHOOSE j \in stop : \A k \in stop : j >= k
         IN <<SubSeq(s, i, e)>>

RECURSIVE ToNumeric(_)
\* pd.to_numeric of a string of digits
ToNumeric(ds) ==
    IF ds = <<>> THEN 0
    ELSE 10 * ToNumeric(SubSeq(ds, 1, Len(ds) - 1)) + DigitValue(ds[Len(ds)])

\* df = df[df["Card RFID"].str.contains("by card")] alone, the
\* "Card is not registered" filter left out
KeepsDescriptionNoMarker(desc) == Contains(desc, ByCard)

\* df = df[~df["Card RFID"].str.contains("Card is not registered", na=False)]
\* df = df[df["Card RFID"].str.contains("by card", na=False)]
KeepsDescription(desc) ==
    /\ ~Contains(desc, NotRegistered)
    /\ Contains(desc, ByCard)

\* the rows left after the two filters, the extraction and
\* dropna(subset=["Card RFID"]), with the rfid made a number; the datetime
\* column is still text
Classify(data) ==
    LET Keep(f) == KeepsDescription(f[4]) /\ notna(ExtractDigits(f[4]))
        kept == SelectSeq(data, Keep)
    IN [i \in 1..Len(kept) |->
          [datetime |-> kept[i][3], rfid |-> ToNumeric(ExtractDigits(kept[i][4])[1])]]

\* a strptime number field at position i: min..max digits, as many as there are
ReadNumber(s, i, min, max) ==
    LET n == CHOOSE k \in 0..max :
                 /\ \A j \in 0..(k - 1) : i + j <= Len(s) /\ IsDigit(s[i + j])
                 /\ k = max \/ i + k > Len(s) \/ ~IsDigit(s[i + k])
    IN [ok |-> n >= min,
        val |-> IF n = 0 THEN 0 ELSE ToNumeric(SubSeq(s, i, i + n - 1)),
        next |-> i + n]

\* a literal character of the format at position i
ReadChar(s, i, c) == [ok |-> i <= Len(s) /\ s[i] = c, next |-> i + 1]

\* a blank of the format: one or more whitespace characters
ReadBlank(s, i) ==
    LET n == CHOOSE k \in 0..Len(s) :
                 /\ \A j \in 0..(k - 1) : i + j <= Len(s) /\ IsSpace(s[i + j])
                 /\ i + k > Len(s) \/ ~IsSpace(s[i + k])
    IN [ok |-> n >= 1, next |-> i + n]

IsLeap(y) == y % 4 = 0 /\ (y % 100 # 0 \/ y % 400 = 0)
DaysInMonth(y, m) ==
    CASE m \in {4, 6, 9, 11} -> 30
      [] m = 2 -> IF IsLeap(y) THEN 29 ELSE 28
      [] OTHER -> 31

\* pd.to_datetime(text, format="%d/%m/%y %H:%M:%S") of one value, then .dt.date:
\* [ok |-> FALSE] stands for the ValueError of a value that does not match
ParseDatetime(s) ==
    LET d == ReadNumber(s, 1, 1, 2)
        s1 == ReadChar(s, d.next, "/")
        m == ReadNumber(s, s1.next, 1, 2)
        s2 == ReadChar(s, m.next, "/")
        y == ReadNumber(s, s2.next, 2, 2)
        b == ReadBlank(s, y.next)
        hh == ReadNumber(s, b.next, 1, 2)
        c1 == ReadChar(s, hh.next, ":")
        mm == ReadNumber(s, c1.next, 1, 2)
        c2 == ReadChar(s, mm.next, ":")
        ss == ReadNumber(s, c2.next, 1, 2)
        year == IF y.val <= 68 THEN 2000 + y.val ELSE 1900 + y.val
        ok == /\ d.ok /\ s1.ok /\ m.ok /\ s2.ok /\ y.ok /\ b.ok
              /\ hh.ok /\ c1.ok /\ mm.ok /\ c2.ok /\ ss.ok
              /\ ss.next = Len(s) + 1
              /\ m.val \in 1..12
              /\ d.val \in 1..DaysInMonth(year, m.val)
              /\ hh.val \in 0..23 /\ mm.val \in 0..59 /\ ss.val \in 0..59
    IN IF ok THEN [ok |-> TRUE, date |-> <<year, m.val, d.val>>]
       ELSE [ok |-> FALSE, date |-> <<>>]

\* df["datetime"] = pd.to_datetime(...) raises when one value does not match
DatetimesParse(evs) ==
    \A i \in 1..Len(evs) : ParseDatetime(evs[i].datetime).ok

\* df["Date"] = df["datetime"].dt.date; df.drop(columns=["datetime"])
Normalize(evs) ==
    [i \in 1..Len(evs) |->
        [rfid |-> evs[i].rfid, date |-> ParseDatetime(evs[i].datetime).date]]

\* df.drop_duplicates(inplace=True): the first of equal rows is kept
DropDuplicates(evs) ==
    LET idxs == {i \in 1..Len(evs) : \A j \in 1..(i - 1) : evs[j] # evs[i]}
        Sel(n) == CHOOSE i \in idxs : Cardinality({j \in idxs : j <= i}) = n
    IN [n \in 1..Cardinality(idxs) |-> evs[Sel(n)]]

RECURSIVE Concat(_)
\* the concatenation of a sequence of sequences
Concat(ss) == IF ss = <<>> THEN <<>> ELSE Head(ss) \o Concat(Tail(ss))

\* the roster rows whose "Card RFID" equals the key (an int64 key equals the
\* float64 cell of the same value; a blank cell equals no key)
RosterMatches(cards, rfid) ==
    LET Same(row) == row.rfid = <<rfid>> IN SelectSeq(cards.rows, Same)

\* df = df.merge(cards_df, on="Card RFID", how="left"): left order kept, one
\* row per matching roster row, the roster columns NaN when none matches
MergeEvents(evs, cards) ==
    Concat([i \in 1..Len(evs) |->
        LET ms == RosterMatches(cards, evs[i].rfid) IN
        IF ms = <<>>
        THEN <<[rfid |-> evs[i].rfid, date |-> evs[i].date, username |-> NaN]>>
        ELSE [k \in 1..Len(ms) |->
                [rfid |-> evs[i].rfid, date |-> evs[i].date,
                 username |-> <<ms[k].username>>]]])

\* the merge without the dropna that follows it
KeepUnmatched(merged) == merged

\* df.dropna(subset=["Username"], inplace=True)
DropUnmatched(merged) ==
    LET Named(row) == notna(row.username) IN SelectSeq(merged, Named)

\* the keys of a groupby, in ascending order (groupby sorts its keys)
SortedKeys(keys) ==
    LET Rank(k) == Cardinality({j \in keys : j <= k}) IN
    [n \in 1..Cardinality(keys) |-> CHOOSE k \in keys : Rank(k) = n]

\* df_count = df.groupby("Card RFID")["Date"].nunique().reset_index()
GroupNunique(df) ==
    LET keys == SortedKeys({df[i].rfid : i \in 1..Len(df)}) IN
    [n \in 1..Len(keys) |->
        [rfid |-> keys[n],
         days |-> Cardinality({df[i].date : i \in {j \in 1..Len(df) : df[j].rfid = keys[n]}})]]

\* df_result = df_count.merge(cards_df, on="Card RFID", how="left")
Enrich(counts, cards) ==
    Concat([i \in 1..Len(counts) |->
        LET ms == RosterMatches(cards, counts[i].rfid) IN
        IF ms = <<>>
        THEN <<[rfid |-> counts[i].rfid, days |-> counts[i].days,
                number |-> NaN, username |-> NaN]>>
        ELSE [k \in 1..Len(ms) |->
                [rfid |-> counts[i].rfid, days |-> counts[i].days,
                 number |-> <<ms[k].number>>, username |-> <<ms[k].username>>]]])

\* the rows before the sort: deduplicate, join, drop the unmatched, aggregate,
\* enrich
ReportRows(evs, cards) ==
    Enrich(GroupNunique(DropUnmatched(MergeEvents(DropDuplicates(evs), cards))),
           cards)

IndexPermutations(n) ==
    {p \in [1..n -> 1..n] : \A i, j \in 1..n : p[i] = p[j] => i = j}

\* sort_values(ascending=True): the wrong direction
SortAscending(rows) ==
    {[i \in 1..Len(rows) |-> rows[p[i]]] : p \in
        {q \in IndexPermutations(Len(rows)) :
            \A i, j \in 1..Len(rows) : i < j => rows[q[i]].days <= rows[q[j]].days}}

\* df_result.sort_values(by="UniqueEntryDays", ascending=False): the default
\* kind is "quicksort", which is not stable, so rows with equal keys may come
\* out in any order; every outcome is descending
SortValues(rows) ==
    {[i \in 1..Len(rows) |-> rows[p[i]]] : p \in
        {q \in IndexPermutations(Len(rows)) :
            \A i, j \in 1..Len(rows) : i < j => rows[q[i]].days >= rows[q[j]].days}}

----------------------------------------------------------------------------
(* main.py: the run *)

\* handlers that log the exception and leave out sys.exit(1)
RaiseExitZero(step) ==
    /\ pc' = "exited"
    /\ exitCode' = 0
    /\ failure' = step

\* an exception reaches main()'s handlers, which log it and sys.exit(1)
Raise(step) ==
    /\ pc' = "exited"
    /\ exitCode' = 1
    /\ failure' = step

\* control moves on; after the last phase main() returns and the process exits 0
Goto(next) ==
    /\ pc' = next
    /\ exitCode' = IF next = "exited" THEN 0 ELSE exitCode
    /\ failure' = failure

\* if not args.skip_report: ... else: ...
AfterUpdate == IF ~skipReport THEN "report" ELSE "exited"

\* if args.skip_clear_all_cards: ... else: ...
AfterBackup == IF skipClear THEN "update" ELSE "clear"

\* the update phase entered whatever --skip-update says
AfterLoadAlwaysUpdate == "backup"

\* if not args.skip_update: ... else: ...
AfterLoad == IF ~skipUpdate THEN "backup" ELSE AfterUpdate

\* check_ping whose result main() ignores
CheckPingIgnored ==
    /\ pc = "ping"
    /\ \E ping \in {"reply", "timeout", "error"} :
         IF ping = "error"
         THEN reachable' = reachable /\ Raise("ping")
         ELSE /\ reachable' = IF ping = "reply" THEN "yes" ELSE "no"
              /\ Goto("load")
    /\ UNCHANGED <<skipUpdate, skipReport, skipClear, cardsFile, eventText, today,
                   full, active, idx, log, backups, reports, events>>

\* if not manager.check_ping(): sys.exit(1).  ping3 sends no HTTP request; a
\* delay is True, None/False or a PingError is False, and an exception that is
\* no PingError (no permission to open the socket) reaches main()'s handler
CheckPing ==
    /\ pc = "ping"
    /\ \E ping \in {"reply", "timeout", "error"} :
         IF ping = "error"
         THEN reachable' = reachable /\ Raise("ping")
         ELSE /\ reachable' = IF ping = "reply" THEN "yes" ELSE "no"
              /\ IF ping = "reply" THEN Goto("load") ELSE Raise("unreachable")
    /\ UNCHANGED <<skipUpdate, skipReport, skipClear, cardsFile, eventText, today,
                   full, active, idx, log, backups, reports, events>>

\* full_cards_df, active_cards_df = load_and_filter_cards(args.file); reading
\* the file may raise
LoadAndFilterCards ==
    /\ pc = "load"
    /\ \E ok \in BOOLEAN :
         IF ok
         THEN \E t \in Days :
                /\ today' = t
                /\ full' = ReadExcel(cardsFile)
                /\ active' = ActiveRows(ReadExcel(cardsFile), t)
                /\ Goto(AfterLoad)
         ELSE /\ Raise("load")
              /\ UNCHANGED <<today, full, active>>
    /\ UNCHANGED <<skipUpdate, skipReport, skipClear, cardsFile, eventText,
                   idx, log, backups, reports, events, reachable>>

\* manager.download_backup(BACKUP_DIR): the request, then the write
DownloadBackup ==
    /\ pc = "backup"
    /\ \E requestOk \in BOOLEAN, writeOk \in BOOLEAN :
         /\ log' = Append(log, Sent(CardGetListRequest, requestOk))
         /\ IF ~requestOk
            THEN Raise("backup_request") /\ backups' = backups
            ELSE IF ~writeOk
            THEN Raise("backup_write") /\ backups' = backups
            ELSE backups' = Append(backups, "card_list") /\ Goto(AfterBackup)
    /\ UNCHANGED <<skipUpdate, skipReport, skipClear, cardsFile, eventText, today,
                   full, active, idx, reports, events, reachable>>

\* manager.clear_all_cards(): TurnstileManager defines no such method, so the
\* attribute lookup raises AttributeError before any request is made
ClearAllCards ==
    /\ pc = "clear"
    /\ Raise("clear")
    /\ UNCHANGED <<skipUpdate, skipReport, skipClear, cardsFile, eventText, today,
                   full, active, idx, log, backups, reports, events, reachable>>

\* the provisioning loop that logs a failed request and goes on to the next row
CardEditContinue ==
    /\ pc = "update"
    /\ idx < Len(active)
    /\ \E ok \in BOOLEAN :
         log' = Append(log, Sent(CardEditRequest(active[idx + 1], full.rfidDtype), ok))
    /\ idx' = idx + 1
    /\ Goto("update")
    /\ UNCHANGED <<skipUpdate, skipReport, skipClear, cardsFile, eventText, today,
                   full, active, backups, reports, events, reachable>>

\* one iteration of update_turnstile_cards: the request for the next row of
\* active_cards_df; _make_request re-raises what requests raises
CardEdit ==
    /\ pc = "update"
    /\ idx < Len(active)
    /\ \E ok \in BOOLEAN :
         /\ log' = Append(log, Sent(CardEditRequest(active[idx + 1], full.rfidDtype), ok))
         /\ IF ok THEN idx' = idx + 1 /\ Goto("update")
            ELSE idx' = idx /\ Raise("card_edit")
    /\ UNCHANGED <<skipUpdate, skipReport, skipClear, cardsFile, eventText, today,
                   full, active, backups, reports, events, reachable>>

\* the loop of update_turnstile_cards is exhausted; main() goes on
UpdateDone ==
    /\ pc = "update"
    /\ idx = Len(active)
    /\ Goto(AfterUpdate)
    /\ UNCHANGED <<skipUpdate, skipReport, skipClear, cardsFile, eventText, today,
                   full, active, idx, log, backups, reports, events, reachable>>

\* generate_access_report without "if not data: return"
ReportOutcomeNoReturn(text, cards) ==
    LET classified == Classify(Tokenize(text))
        evs == Normalize(classified)
    IN IF ~DatetimesParse(classified)
       THEN [kind |-> "raise", events |-> <<>>, rows |-> <<>>]
       ELSE [kind |-> "rows", events |-> evs, rows |-> ReportRows(evs, cards)]

\* what generate_access_report makes of the fetched text: an early return, the
\* ValueError of a timestamp, or the rows to sort and write
ReportOutcome(text, cards) ==
    LET data == Tokenize(text)
        classified == Classify(data)
        evs == Normalize(classified)
    IN IF data = <<>>
       THEN [kind |-> "return", events |-> <<>>, rows |-> <<>>]
       ELSE IF ~DatetimesParse(classified)
       THEN [kind |-> "raise", events |-> <<>>, rows |-> <<>>]
       ELSE [kind |-> "rows", events |-> evs, rows |-> ReportRows(evs, cards)]

\* manager.generate_access_report(args.records_to_fetch, full_cards_df, REPORT_DIR)
GenerateAccessReport ==
    /\ pc = "report"
    /\ LET out == ReportOutcome(eventText, full) IN
       \E requestOk \in BOOLEAN :
         /\ log' = Append(log, Sent(EventGetRequest, requestOk))
         /\ IF ~requestOk
            THEN Raise("event_get") /\ UNCHANGED <<events, reports>>
            ELSE IF out.kind = "return"
            THEN Goto("exited") /\ UNCHANGED <<events, reports>>
            ELSE IF out.kind = "raise"
            THEN Raise("timestamp") /\ UNCHANGED <<events, reports>>
            ELSE /\ events' = out.events
                 /\ \E sorted \in SortValues(out.rows), writeOk \in BOOLEAN :
                      IF writeOk
                      THEN reports' = Append(reports, sorted) /\ Goto("exited")
                      ELSE reports' = reports /\ Raise("report_write")
    /\ UNCHANGED <<skipUpdate, skipReport, skipClear, cardsFile, eventText, today,
                   full, active, idx, backups, reachable>>

----------------------------------------------------------------------------
(* Inputs: event lines the device may return, roster rows the file may hold *)

\* "01/02/24 10:00:00": 1 February 2024
Time1 ==
    <<"0", "1", "/", "0", "2", "/", "2", "4", SP, "1", "0", ":", "0", "0", ":",
          "0", "0">>

\* "01/02/24 18:30:00": the same day, later
Time1Later ==
    <<"0", "1", "/", "0", "2", "/", "2", "4", SP, "1", "8", ":", "3", "0", ":",
          "0", "0">>

\* "02/02/24 09:15:00": 2 February 2024
Time2 ==
    <<"0", "2", "/", "0", "2", "/", "2", "4", SP, "0", "9", ":", "1", "5", ":",
          "0", "0">>

\* "31/02/24 10:00:00": no such day: does not match the format
TimeMalformed ==
    <<"3", "1", "/", "0", "2", "/", "2", "4", SP, "1", "0", ":", "0", "0", ":",
          "0", "0">>

\* "Entered by card 00123"
Desc123 ==
    <<"E", "n", "t", "e", "r", "e", "d", SP, "b", "y", SP, "c", "a", "r", "d",
          SP, "0", "0", "1", "2", "3">>

\* "Exit by card 7"
Desc7 ==
    <<"E", "x", "i", "t", SP, "b", "y", SP, "c", "a", "r", "d", SP, "7">>

\* "Card is not registered by card 456": the device's marker, with a card number
DescNotRegistered ==
    <<"C", "a", "r", "d", SP, "i", "s", SP, "n", "o", "t", SP, "r", "e", "g",
          "i", "s", "t", "e", "r", "e", "d", SP, "b", "y", SP, "c", "a", "r",
          "d", SP, "4", "5", "6">>

\* "card is not registered by card 7": the marker in lower case
DescLowerCase ==
    <<"c", "a", "r", "d", SP, "i", "s", SP, "n", "o", "t", SP, "r", "e", "g",
          "i", "s", "t", "e", "r", "e", "d", SP, "b", "y", SP, "c", "a", "r",
          "d", SP, "7">>

\* "Entered by card": no digit
DescNoDigit ==
    <<"E", "n", "t", "e", "r", "e", "d", SP, "b", "y", SP, "c", "a", "r", "d">>

\* "Entered by button 5": a digit, but not by card
DescButton ==
    <<"E", "n", "t", "e", "r", "e", "d", SP, "b", "y", SP, "b", "u", "t", "t",
          "o", "n", SP, "5">>

\* one line of the event log: request number, hash, datetime, description
EventLine(time, desc) == <<"1">> \o <<TAB>> \o <<"h", "1">> \o <<TAB>> \o time \o <<TAB>> \o desc

LineA1 == EventLine(Time1, Desc123)
LineA1Later == EventLine(Time1Later, Desc123)
LineA2 == EventLine(Time2, Desc123)
LineB1 == EventLine(Time1, Desc7)
LineB2 == EventLine(Time2, Desc7)
\* "bad\tline"
LineBadArity == <<"b", "a", "d", TAB, "l", "i", "n", "e">>
LineNotRegistered == EventLine(Time1, DescNotRegistered)
LineLowerCase == EventLine(Time1, DescLowerCase)
LineNoDigit == EventLine(Time1, DescNoDigit)
LineButton == EventLine(Time1, DescButton)
LineMalformedTime == EventLine(TimeMalformed, Desc7)
\* a malformed timestamp on a line the filters drop
LineMalformedTimeButton == EventLine(TimeMalformed, DescButton)
\* five fields, the last one empty
LineTrailingTab == EventLine(Time2, Desc7) \o <<TAB>>
\* four fields, the first one empty
LineLeadingTab == <<TAB>> \o <<"h", "1">> \o <<TAB>> \o Time1 \o <<TAB>> \o Desc123

RECURSIVE JoinLines(_)
\* the body of the device's response: every line ends with a newline
JoinLines(lines) ==
    IF lines = <<>> THEN <<>> ELSE Head(lines) \o <<NL>> \o JoinLines(Tail(lines))

\* the sequences of at most n elements of S
SeqsUpTo(S, n) == UNION {[1..k -> S] : k \in 0..n}

TokenizerLines ==
    {LineA1, LineB2, LineBadArity, LineNotRegistered, LineLowerCase, LineNoDigit,
     LineButton, LineMalformedTime, LineMalformedTimeButton, LineTrailingTab,
     LineLeadingTab}

AggregationLines == {LineA1, LineA1Later, LineA2, LineB1, LineB2}

\* a row of the Excel file
Card(rfid, number, username, isActive, exp) ==
    [rfid |-> rfid, number |-> number, username |-> username,
     active |-> isActive, exp |-> exp]

DateCell(d) == [kind |-> "date", day |-> d]
BlankCell == [kind |-> "blank", day |-> 0]
TextCell == [kind |-> "text", day |-> 0]

Card123 == Card(<<123>>, "N-123", "alice", TRUE, DateCell(MaxDay))
Card7 == Card(<<7>>, "N-7", "bob", TRUE, DateCell(MaxDay))
Card45 == Card(<<45>>, "N-45", "dave", TRUE, DateCell(MaxDay))
Card7Expiring == Card(<<7>>, "N-7", "bob", TRUE, DateCell(1))
Card7Inactive == Card(<<7>>, "N-7", "bob", FALSE, DateCell(MaxDay))
CardNoRfid == Card(NaN, "N-0", "carol", TRUE, DateCell(MaxDay))

----------------------------------------------------------------------------
(* Specifications *)

RunRosters ==
    {<<>>, <<Card123, Card7, Card45>>, <<Card7, CardNoRfid, Card123>>,
     <<Card123, Card7Inactive>>, <<Card7Expiring, Card123>>}

RunTexts ==
    {JoinLines(<<>>), JoinLines(<<LineBadArity>>), JoinLines(<<LineA1, LineB1>>),
     JoinLines(<<LineMalformedTime>>), JoinLines(<<LineB1, LineA1, LineB2>>)}

FilterCards ==
    {Card(rfid, "N", "user", isActive, exp) :
        rfid \in {NaN, <<7>>}, isActive \in BOOLEAN,
        exp \in {DateCell(d) : d \in Days} \cup {BlankCell, TextCell}}

TokenizerRosters == {<<Card7>>, <<Card123, Card7>>}

AggregationRosters ==
    {<<Card7>>, <<Card123, Card7>>, <<Card123, CardNoRfid, Card7>>}

\* main() is entered: nothing has been sent, read or written
Init ==
    /\ pc = "ping"
    /\ skipUpdate \in BOOLEAN
    /\ skipReport \in BOOLEAN
    /\ skipClear \in BOOLEAN
    /\ cardsFile \in RunRosters
    /\ eventText \in RunTexts
    /\ today = 0
    /\ full = [rows |-> <<>>, rfidDtype |-> "int64"]
    /\ active = <<>>
    /\ idx = 0
    /\ log = <<>>
    /\ backups = <<>>
    /\ reports = <<>>
    /\ events = <<>>
    /\ reachable = "unknown"
    /\ exitCode = -1
    /\ failure = "none"

Next ==
    \/ CheckPing
    \/ LoadAndFilterCards
    \/ DownloadBackup
    \/ ClearAllCards
    \/ CardEdit
    \/ UpdateDone
    \/ GenerateAccessReport

\* a whole run of main()
Spec == Init /\ [][Next]_vars

\* main() is about to call load_and_filter_cards, on any small roster
InitFilter ==
    /\ pc = "load"
    /\ skipUpdate = FALSE
    /\ skipReport = FALSE
    /\ skipClear = FALSE
    /\ cardsFile \in SeqsUpTo(FilterCards, MaxRoster)
    /\ eventText = <<>>
    /\ today = 0
    /\ full = [rows |-> <<>>, rfidDtype |-> "int64"]
    /\ active = <<>>
    /\ idx = 0
    /\ log = <<>>
    /\ backups = <<>>
    /\ reports = <<>>
    /\ events = <<>>
    /\ reachable = "yes"
    /\ exitCode = -1
    /\ failure = "none"

\* load_and_filter_cards alone
SpecFilter == InitFilter /\ [][LoadAndFilterCards]_vars

\* main() run with --skip-update is about to call generate_access_report
InitReportOn(rosters, texts) ==
    /\ pc = "report"
    /\ skipUpdate = TRUE
    /\ skipReport = FALSE
    /\ skipClear = FALSE
    /\ cardsFile \in rosters
    /\ eventText \in texts
    /\ today = 1
    /\ full = ReadExcel(cardsFile)
    /\ active = ActiveRows(ReadExcel(cardsFile), 1)
    /\ idx = 0
    /\ log = <<>>
    /\ backups = <<>>
    /\ reports = <<>>
    /\ events = <<>>
    /\ reachable = "yes"
    /\ exitCode = -1
    /\ failure = "none"

InitReport ==
    InitReportOn(TokenizerRosters,
                 {JoinLines(ls) : ls \in SeqsUpTo(TokenizerLines, MaxLines)})

InitAggregation ==
    InitReportOn(AggregationRosters,
                 {JoinLines(ls) : ls \in SeqsUpTo(AggregationLines, MaxAggLines)})

\* generate_access_report alone, on texts that exercise the tokenizer and the filters
SpecReport == InitReport /\ [][GenerateAccessReport]_vars

\* generate_access_report alone, on texts that exercise the join and the aggregation
SpecAggregation == InitAggregation /\ [][GenerateAccessReport]_vars

----------------------------------------------------------------------------
(* Properties of the run *)

KnownEndpoints == {"/cgi/card_get_list", "/cgi/card_edit", "/cgi/event_get"}

\* the requests of a log, without their outcomes
Requests(l) == [i \in 1..Len(l) |-> [endpoint |-> l[i].endpoint, req |-> l[i].req]]

\* the card_edit requests of a log, in order
EditsOf(l) ==
    LET IsEdit(e) == e.endpoint = "/cgi/card_edit" IN SelectSeq(Requests(l), IsEdit)

\* the request the roster row asks for: "1+1+" and the row's rfid value
ExpectedEdit(row) ==
    [endpoint |-> "/cgi/card_edit",
     req |-> <<"1", "+", "1", "+">> \o FormatRfid(row.rfid[1], full.rfidDtype)]

\* failures of the device, the network, the files or the data
CallFailures ==
    {"ping", "unreachable", "load", "backup_request", "backup_write", "card_edit",
     "event_get", "timestamp", "report_write"}

\* the update phase ran to its end
UpdateFinished ==
    /\ ~skipUpdate
    /\ \/ pc = "report"
       \/ pc = "exited" /\ failure \in {"none", "event_get", "timestamp", "report_write"}

\* C1: a run with no skip flag and no failing call sends the card-list export
\* (and writes the backup), then one clear-all-cards command, then one
\* card_edit per row of the active roster, then one event_get, in this order
C1_FullRunSequence ==
    (pc = "exited" /\ ~skipUpdate /\ ~skipReport /\ ~skipClear
     /\ failure \notin CallFailures)
    => /\ Len(log) = Len(active) + 3
       /\ \A i \in 1..Len(log) : log[i].ok
       /\ Requests(log)[1] = CardGetListRequest
       /\ Len(backups) = 1
       /\ log[2].endpoint \notin KnownEndpoints
       /\ \A k \in 1..Len(active) : Requests(log)[2 + k] = ExpectedEdit(active[k])
       /\ Requests(log)[Len(log)] = EventGetRequest

\* C2: when check_ping returns false the run has exited with status 1, no
\* request was sent, the roster was not loaded and no file was written,
\* whatever the skip flags are
C2_UnreachableHalts ==
    reachable = "no"
    => /\ pc = "exited"
       /\ exitCode = 1
       /\ log = <<>>
       /\ today = 0 /\ full.rows = <<>> /\ active = <<>>
       /\ backups = <<>>
       /\ reports = <<>>

\* C2 witness: an unreachable device in a run that would have updated and
\* reported a non-empty roster
C2_Witness ==
    /\ reachable = "no"
    /\ pc = "exited"
    /\ ~skipUpdate /\ ~skipReport
    /\ cardsFile # <<>>

C4_SkipFlags ==
    /\ skipUpdate
         => /\ \A i \in 1..Len(log) : log[i].endpoint = "/cgi/event_get"
            /\ backups = <<>>
            /\ pc \notin {"backup", "clear", "update"}
            /\ failure \notin {"backup_request", "backup_write", "clear", "card_edit"}
    /\ (skipClear /\ ~skipUpdate)
         => /\ pc # "clear" /\ failure # "clear"
            /\ \A i \in 1..Len(log) : log[i].endpoint \in KnownEndpoints
            /\ UpdateFinished
                 => /\ Requests(log)[1] = CardGetListRequest
                    /\ Len(backups) = 1
                    /\ EditsOf(log) = [k \in 1..Len(active) |-> ExpectedEdit(active[k])]
    /\ skipReport
         => /\ \A i \in 1..Len(log) : log[i].endpoint # "/cgi/event_get"
            /\ reports = <<>>
            /\ pc # "report"
    /\ (~skipReport /\ pc = "exited" /\ failure = "none")
         => /\ log # <<>>
            /\ Requests(log)[Len(log)] = EventGetRequest

\* C4 witness: a finished run with --skip-clear-all-cards and --skip-report
\* that provisioned three cards
C4_Witness ==
    /\ pc = "exited" /\ failure = "none"
    /\ skipClear /\ ~skipUpdate /\ skipReport
    /\ Len(EditsOf(log)) = 3

\* C10: every request is attempted at most once; a failed request is the last
\* one sent; after a failure the run has exited with status 1 and nothing more
\* is sent or written: no clear or card_edit after a failed backup, no
\* card_edit after a failed clear, no report file after a malformed timestamp
C10_FailFast ==
    /\ [](/\ \A i, j \in 1..Len(log) : Requests(log)[i] = Requests(log)[j] => i = j
          /\ \A i \in 1..(Len(log) - 1) : log[i].ok
          /\ (log # <<>> /\ ~log[Len(log)].ok) => failure # "none"
          /\ failure # "none" => pc = "exited" /\ exitCode = 1 /\ reports = <<>>
          /\ failure \in {"backup_request", "backup_write"}
               => Requests(log) = <<CardGetListRequest>>
          /\ failure = "backup_request" => backups = <<>>
          /\ failure = "clear" => EditsOf(log) = <<>>
          /\ failure = "timestamp"
               => Requests(log)[Len(log)] = EventGetRequest /\ log[Len(log)].ok)
    /\ [][failure # "none" => UNCHANGED <<log, backups, reports, exitCode>>]_vars

\* C10 witness: a malformed timestamp ended a run that had provisioned cards
C10_Witness ==
    /\ failure = "timestamp"
    /\ ~skipUpdate
    /\ Len(EditsOf(log)) >= 2

----------------------------------------------------------------------------
(* Properties of load_and_filter_cards *)

\* the roster row of the file is active: flag set, rfid present, not expired
RecordIsActive(card, t) ==
    /\ card.active = TRUE
    /\ card.rfid # NaN
    /\ card.exp.kind = "date"
    /\ card.exp.day >= t

\* C5: the active view is exactly the rows of the roster with the flag set, an
\* rfid present and an expiration date >= today, in the roster's order: a
\* subset of the full view, a row expiring today in it, a row that expired
\* yesterday not in it; the full view holds every row of the roster
C5_ActiveView ==
    (pc # "load" /\ failure = "none")
    => /\ Len(full.rows) = Len(cardsFile)
       /\ \A i \in 1..Len(cardsFile) :
            /\ full.rows[i].index = i - 1
            /\ full.rows[i].rfid = cardsFile[i].rfid
            /\ full.rows[i].number = cardsFile[i].number
            /\ full.rows[i].username = cardsFile[i].username
            /\ full.rows[i].exp = cardsFile[i].exp
            /\ (\E j \in 1..Len(active) : active[j] = full.rows[i])
                 <=> RecordIsActive(cardsFile[i], today)
       /\ \A j \in 1..Len(active) : \E i \in 1..Len(full.rows) : active[j] = full.rows[i]
       /\ \A j, k \in 1..Len(active) : j < k => active[j].index < active[k].index

\* C5 witness: a row expiring today is in the active view, a row that expired
\* yesterday is not
C5_Witness ==
    /\ pc # "load" /\ failure = "none"
    /\ Len(cardsFile) = 2
    /\ RecordIsActive(cardsFile[1], today)
    /\ cardsFile[1].exp.day = today
    /\ cardsFile[2].active = TRUE /\ cardsFile[2].rfid # NaN
    /\ cardsFile[2].exp.kind = "date" /\ cardsFile[2].exp.day = today - 1
    /\ Len(active) = 1
    /\ active[1].index = 0

----------------------------------------------------------------------------
(* Properties of generate_access_report *)

UpperCase ==
    <<"A", "B", "C", "D", "E", "F", "G", "H", "I", "J", "K", "L", "M",
      "N", "O", "P", "Q", "R", "S", "T", "U", "V", "W", "X", "Y", "Z">>
LowerCase ==
    <<"a", "b", "c", "d", "e", "f", "g", "h", "i", "j", "k", "l", "m",
      "n", "o", "p", "q", "r", "s", "t", "u", "v", "w", "x", "y", "z">>
ToLower(str) ==
    [i \in 1..Len(str) |->
        IF \E k \in 1..26 : UpperCase[k] = str[i]
        THEN LowerCase[CHOOSE k \in 1..26 : UpperCase[k] = str[i]]
        ELSE str[i]]
ContainsAnyCase(str, pat) == Contains(ToLower(str), ToLower(pat))

\* the lines of a text, its fields counted by its tabs
LinesOf(text) == Split(text, NL)
FieldCount(line) == Cardinality({i \in 1..Len(line) : line[i] = TAB}) + 1
FourFieldLines(text) ==
    LET IsFour(line) == FieldCount(line) = 4 IN SelectSeq(LinesOf(text), IsFour)
Description(line) ==
    LET tabs == {i \in 1..Len(line) : line[i] = TAB}
        last == CHOOSE i \in tabs : \A j \in tabs : j <= i
    IN SubSeq(line, last + 1, Len(line))
Timestamp(line) == Split(line, TAB)[3]
HasDigit(str) == \E i \in 1..Len(str) : IsDigit(str[i])
FirstNumber(str) == ToNumeric(ExtractDigits(str)[1])

\* the event text was fetched and generate_access_report has ended
ReportEnded == pc = "exited" /\ log # <<>> /\ log[Len(log)].ok

\* C6 as stated: no line of the fetched text with exactly four tab-separated
\* fields => no report file, a normal return, and the run exits 0
C6_NoFourFieldLinesNoReport ==
    (ReportEnded /\ FourFieldLines(eventText) = <<>>)
    => reports = <<>> /\ failure = "none" /\ exitCode = 0

\* C6: no line with exactly four tab-separated fields in the fetched text once
\* its leading and trailing whitespace is stripped => no report file, a normal
\* return, and the run exits 0
C6_NoFourFieldLinesAfterStrip ==
    (ReportEnded /\ FourFieldLines(Strip(eventText)) = <<>>)
    => reports = <<>> /\ failure = "none" /\ exitCode = 0

\* C6 witness: a text of lines, none with four fields, returned early
C6_Witness ==
    /\ ReportEnded
    /\ eventText = JoinLines(<<LineBadArity, LineBadArity>>)
    /\ reports = <<>> /\ exitCode = 0

\* a line yields an AccessEvent, as the claim has it: the marker in any case
YieldsAsStated(line) ==
    /\ FieldCount(line) = 4
    /\ ~ContainsAnyCase(Description(line), NotRegistered)
    /\ Contains(Description(line), ByCard)
    /\ HasDigit(Description(line))

\* a line yields an AccessEvent: the marker exactly as the device writes it
YieldsExact(line) ==
    /\ FieldCount(line) = 4
    /\ ~Contains(Description(line), NotRegistered)
    /\ Contains(Description(line), ByCard)
    /\ HasDigit(Description(line))

EventRfidsInOrder == [i \in 1..Len(events) |-> events[i].rfid]

\* C7 as stated, for a build whose timestamps parse and the lines of the
\* stripped text: the AccessEvents are those of the lines with four fields
\* whose description does not contain "card is not registered", contains
\* "by card" and a digit, each with the number of its first run of digits
C7_LineYieldsEventIff ==
    (ReportEnded /\ failure # "timestamp")
    => LET yielding == SelectSeq(LinesOf(Strip(eventText)), YieldsAsStated) IN
       EventRfidsInOrder = [i \in 1..Len(yielding) |-> FirstNumber(Description(yielding[i]))]

\* C7: of the lines of the stripped text, those with four fields whose
\* description does not contain "Card is not registered" (in this case),
\* contains "by card" and a digit are the AccessEvents, each with the number of
\* its first run of digits, provided their timestamps parse; if one does not,
\* the build raises and yields none
C7_LineYieldsEventIffExact ==
    ReportEnded
    => LET yielding == SelectSeq(LinesOf(Strip(eventText)), YieldsExact) IN
       IF \A i \in 1..Len(yielding) : ParseDatetime(Timestamp(yielding[i])).ok
       THEN /\ failure \in {"none", "report_write"}
            /\ EventRfidsInOrder =
                 [i \in 1..Len(yielding) |-> FirstNumber(Description(yielding[i]))]
       ELSE failure = "timestamp" /\ events = <<>>

\* C7 witness: of "...Entered by card 00123" and a marked line with digits,
\* only the first became an AccessEvent, with rfid 123
C7_Witness ==
    /\ ReportEnded
    /\ eventText = JoinLines(<<LineA1, LineNotRegistered>>)
    /\ EventRfidsInOrder = <<123>>

RosterRfids ==
    {full.rows[i].rfid[1] : i \in {j \in 1..Len(full.rows) : notna(full.rows[j].rfid)}}
EventRfids == {events[i].rfid : i \in 1..Len(events)}
DatesOf(rfid) == {events[i].date : i \in {j \in 1..Len(events) : events[j].rfid = rfid}}
RosterPosition(rfid) == CHOOSE i \in 1..Len(full.rows) : full.rows[i].rfid = <<rfid>>

\* C8: the written report has exactly one row per rfid that occurs in the
\* AccessEvents and in the full roster, and the row's UniqueEntryDays is the
\* number of distinct dates among that rfid's events
C8_ReportRows ==
    reports # <<>>
    => LET rows == reports[1] IN
       /\ {rows[i].rfid : i \in 1..Len(rows)} = EventRfids \cap RosterRfids
       /\ Len(rows) = Cardinality(EventRfids \cap RosterRfids)
       /\ \A i \in 1..Len(rows) :
            /\ rows[i].days = Cardinality(DatesOf(rows[i].rfid))
            /\ rows[i].username = <<full.rows[RosterPosition(rows[i].rfid)].username>>

\* C8 witness: three events of rfid 123 on two dates give one row of 2 days,
\* and the events of an rfid the roster lacks give none
C8_Witness ==
    /\ reports # <<>>
    /\ Len(events) = 3
    /\ \A i \in 1..3 : events[i].rfid = 123
    /\ reports[1] = <<[rfid |-> 123, days |-> 2, number |-> <<"N-123">>,
                       username |-> <<"alice">>]>>

\* C8 witness of the exclusions: events of an rfid absent from the roster
C8_WitnessExcluded ==
    /\ reports # <<>>
    /\ 123 \in EventRfids /\ 123 \notin RosterRfids
    /\ 7 \in EventRfids
    /\ Len(reports[1]) = 1

\* C9 as stated: the rows are in descending order of UniqueEntryDays, and rows
\* with equal UniqueEntryDays are in the order of their records in the roster
C9_SortedStableRosterOrder ==
    reports # <<>>
    => LET rows == reports[1] IN
       \A i, j \in 1..Len(rows) :
          i < j => /\ rows[i].days >= rows[j].days
                   /\ rows[i].days = rows[j].days
                        => RosterPosition(rows[i].rfid) < RosterPosition(rows[j].rfid)

\* C9: the rows of the written report are in descending order of
\* UniqueEntryDays
C9_SortedDescending ==
    reports # <<>>
    => LET rows == reports[1] IN
       \A i, j \in 1..Len(rows) : i < j => rows[i].days >= rows[j].days

\* C9 witness: the rfid with more days comes first though it is the larger one
C9_Witness ==
    /\ reports # <<>>
    /\ Len(reports[1]) = 2
    /\ reports[1][1].rfid = 123 /\ reports[1][1].days = 2
    /\ reports[1][2].rfid = 7 /\ reports[1][2].days = 1

====
